---- MODULE Spec2Model ----
(***************************************************************************)
(* A model of the GeeksForGeeks unofficial API: the Flask routes of        *)
(* app.py (rate limiter, validators, the three Resource.get handlers) and  *)
(* the three extractors (modules/scrap.py, modules/calendar.py,            *)
(* modules/contest.py) with their upstream calls, the urllib3 retry        *)
(* policy mounted on the scraper session and functools.lru_cache on the    *)
(* calendar and contest fetch_response methods.                            *)
(*                                                                         *)
(* Strings are sequences of one-character strings.  Python dicts are TLA+  *)
(* functions whose DOMAIN is the set of keys present.  JSON values are     *)
(* tagged records (see JObj, JNull, ...).                                  *)
(***************************************************************************)
EXTENDS Integers, Sequences, FiniteSets, TLC

VARIABLES
    current_year,   \* datetime.now().year, read by validate_year and the routes
    storage,        \* the limiter's memory:// storage: key -> [count, ttl]
    cal_cache,      \* lru_cache of Calendar.fetch_response, least recent first
    con_cache,      \* lru_cache of Contest.fetch_response, least recent first
    next_id,        \* identity of the next extractor object constructed
    pc,             \* per worker: "idle", "fetching", "done"
    req,            \* per worker: the request being handled
    obj,            \* per worker: the extractor object the route built
    retries,        \* per worker: urllib3 Retry.total left for the fetch
    log,            \* per worker: the upstream's answer to each attempt so far
    result,         \* per worker: what the extractor returned or raised
    resp,           \* per worker: the (body, status) the route answered
    arrivals,       \* history: requests received per client in the current minute
    served          \* history: requests not answered 429 per client, this minute

vars == <<current_year, storage, cal_cache, con_cache, next_id, pc, req, obj,
          retries, log, result, resp, arrivals, served>>

-----------------------------------------------------------------------------
(* Bounds of the model.                                                    *)

NumWorkers == 2
MaxNameLen == 3
MaxYearLen == 4
BaseYear == 2020
MaxHits == 11
MaxObjects == 2
MaxProblems == 2

Workers == 1..NumWorkers
Clients == {"10.0.0.1", "10.0.0.2"}
Routes == {"profile", "calendar", "contest"}

-----------------------------------------------------------------------------
(* Characters and strings.                                                 *)

Lower == {"a","b","c","d","e","f","g","h","i","j","k","l","m",
          "n","o","p","q","r","s","t","u","v","w","x","y","z"}
Upper == {"A","B","C","D","E","F","G","H","I","J","K","L","M",
          "N","O","P","Q","R","S","T","U","V","W","X","Y","Z"}
Digits == {"0","1","2","3","4","5","6","7","8","9"}
Whitespace == {" ", "\t", "\n", "\r"}

\* The character class [a-zA-Z0-9_-] of the username pattern.
UsernameClass == Lower \cup Upper \cup Digits \cup {"_", "-"}

\* All strings over alphabet A of length lo..hi.
Strings(A, lo, hi) == UNION {[1..n -> A] : n \in lo..hi}

\* Python's truthiness of a str: the empty string is falsy.
Truthy(s) == Len(s) > 0

\* re.match(r'^[a-zA-Z0-9_-]+$', s): without re.MULTILINE, '$' matches at the
\* end of the string and also just before a newline that ends the string.
ReMatchUsername(s) ==
    \E n \in 1..Len(s) :
        /\ \A i \in 1..n : s[i] \in UsernameClass
        /\ \/ n = Len(s)
           \/ n + 1 = Len(s) /\ s[n + 1] = "\n"

\* validate_username: falsy input is refused, then the pattern decides.
validate_username(username) ==
    IF ~Truthy(username) THEN FALSE ELSE ReMatchUsername(username)

DigitVal(c) ==
    CASE c = "0" -> 0 [] c = "1" -> 1 [] c = "2" -> 2 [] c = "3" -> 3
      [] c = "4" -> 4 [] c = "5" -> 5 [] c = "6" -> 6 [] c = "7" -> 7
      [] c = "8" -> 8 [] c = "9" -> 9

\* str.strip(): the string without its leading and trailing whitespace.
RECURSIVE LStrip(_)
LStrip(s) == IF Len(s) > 0 /\ Head(s) \in Whitespace THEN LStrip(Tail(s)) ELSE s

RECURSIVE RStrip(_)
RStrip(s) ==
    IF Len(s) > 0 /\ s[Len(s)] \in Whitespace
    THEN RStrip(SubSeq(s, 1, Len(s) - 1)) ELSE s

Strip(s) == RStrip(LStrip(s))

\* The digits of an int() literal: decimal digits, single underscores allowed
\* between digits only.
DigitsWellFormed(d) ==
    /\ Len(d) >= 1
    /\ \A i \in 1..Len(d) : d[i] \in Digits \cup {"_"}
    /\ d[1] # "_" /\ d[Len(d)] # "_"
    /\ \A i \in 1..(Len(d) - 1) : ~(d[i] = "_" /\ d[i + 1] = "_")

RECURSIVE DigitsValue(_, _)
DigitsValue(d, acc) ==
    IF Len(d) = 0 THEN acc
    ELSE IF Head(d) = "_" THEN DigitsValue(Tail(d), acc)
    ELSE DigitsValue(Tail(d), 10 * acc + DigitVal(Head(d)))

\* int(s) for a str s: [ok |-> TRUE, val |-> n], or ok = FALSE for ValueError.
PyInt(s) ==
    LET t == Strip(s)
        signed == Len(t) > 0 /\ t[1] \in {"+", "-"}
        d == IF signed THEN Tail(t) ELSE t
    IN  IF DigitsWellFormed(d)
        THEN [ok |-> TRUE,
              val |-> IF signed /\ t[1] = "-" THEN 0 - DigitsValue(d, 0)
                      ELSE DigitsValue(d, 0)]
        ELSE [ok |-> FALSE, val |-> 0]

MinYear == 2000

\* A range test that leaves the year 2000 itself out, for comparison.
YearInRangeExclusiveLow(y, now) == MinYear < y /\ y <= now

\* The range test of validate_year, on the parsed year.
YearInRange(y, now) == MinYear <= y /\ y <= now

\* validate_year(year): a falsy year is valid; otherwise int(year) must not
\* raise ValueError and must lie in 2000..current year.
validate_year(year, now) ==
    IF ~Truthy(year) THEN TRUE
    ELSE LET p == PyInt(year)
         IN  IF p.ok THEN YearInRange(p.val, now) ELSE FALSE

-----------------------------------------------------------------------------
(* JSON values as the upstream sends them and Python's operations on them. *)
(* An object keeps its members in upstream order: items is a sequence of   *)
(* [key, val] with distinct keys.  An operation that can raise returns     *)
(* [ok |-> TRUE, v |-> value] or [ok |-> FALSE, exc |-> exception class].  *)

JNull == [k |-> "null"]
JNum(n) == [k |-> "num", n |-> n]
JStr(s) == [k |-> "str", s |-> s]
JList(xs) == [k |-> "list", xs |-> xs]
JObj(items) == [k |-> "obj", items |-> items]
Member(key, val) == [key |-> key, val |-> val]
EmptyDict == JObj(<<>>)

Ok(v) == [ok |-> TRUE, v |-> v]
Raise(cls) == [ok |-> FALSE, exc |-> cls]

HasKey(j, key) == \E i \in DOMAIN j.items : j.items[i].key = key

ValueAt(j, key) ==
    j.items[CHOOSE i \in DOMAIN j.items : j.items[i].key = key].val

\* `key in j`: membership for a dict or a list, TypeError for None and numbers.
PyIn(key, j) ==
    CASE j.k = "obj" -> Ok(HasKey(j, key))
      [] j.k = "list" -> Ok(\E i \in DOMAIN j.xs : j.xs[i] = JStr(key))
      [] OTHER -> Raise("TypeError")

\* `j[key]` with a str key: KeyError for a dict without it, TypeError otherwise.
PyIndex(j, key) ==
    CASE j.k = "obj" /\ HasKey(j, key) -> Ok(ValueAt(j, key))
      [] j.k = "obj" -> Raise("KeyError")
      [] OTHER -> Raise("TypeError")

\* `j.get(key, default)`: only a dict has .get.
PyGet(j, key, default) ==
    CASE j.k = "obj" /\ HasKey(j, key) -> Ok(ValueAt(j, key))
      [] j.k = "obj" -> Ok(default)
      [] OTHER -> Raise("AttributeError")

\* str.lower() on the difficulty labels the upstream uses.
StrLower(s) ==
    CASE s \in {"Easy", "EASY", "easy"} -> "easy"
      [] s \in {"Medium", "MEDIUM", "medium"} -> "medium"
      [] s \in {"Hard", "HARD", "hard"} -> "hard"
      [] s \in {"School", "school"} -> "school"
      [] s \in {"Basic", "basic"} -> "basic"
      [] OTHER -> s

-----------------------------------------------------------------------------
(* Exceptions of the requests library, by class, and the except clauses'   *)
(* isinstance tests.                                                       *)

Exc(cls, text) == [cls |-> cls, text |-> text]

\* requests.exceptions.Timeout and its subclasses.
IsTimeout(e) == e.cls \in {"ConnectTimeout", "ReadTimeout"}

\* requests.exceptions.RequestException and its subclasses.  The library's own
\* JSONDecodeError (requests >= 2.27) is both a RequestException and a
\* ValueError; the standard json.JSONDecodeError is a ValueError only.
IsRequestException(e) ==
    e.cls \in {"ConnectTimeout", "ReadTimeout", "ConnectionError", "RetryError",
               "HTTPError", "requests.JSONDecodeError"}

IsValueError(e) == e.cls \in {"requests.JSONDecodeError", "json.JSONDecodeError"}

-----------------------------------------------------------------------------
(* The upstream's answer to one attempt, and the retry policies.           *)

HttpAnswer(status, body) == [kind |-> "http", status |-> status, body |-> body]
NetAnswer(kind) == [kind |-> kind, status |-> 0, body |-> JNull]
NetFailures == {"connect_timeout", "read_timeout", "conn_error"}

RetryTotal == 3
StatusForcelist == {429, 500, 502, 503, 504}

\* Scraper._create_session: Retry(total=3, backoff_factor=1, status_forcelist=...)
\* mounted on the session; read errors of a GET are retried.
ScraperRetry == [total |-> RetryTotal, read |-> TRUE, forcelist |-> StatusForcelist]

\* requests.post without a session: the adapter's default Retry(0, read=False).
DefaultRetry == [total |-> 0, read |-> FALSE, forcelist |-> {}]

\* An exhaustion test that counts attempts instead of retries, for comparison.
IsExhaustedAtZero(total) == total <= 0

\* Retry.is_exhausted() after the decrement: the lowest counter is below zero.
IsExhausted(total) == total < 0

\* What one attempt's answer does to the call: "response" (the answer is the
\* call's response), "retry" (sleep and try again) or "raise" with the
\* requests exception the adapter raises.
AttemptOutcome(policy, total, a) ==
    LET left == total - 1
        giveUp(e) == [step |-> "raise", exc |-> e, total |-> left]
        again == [step |-> "retry", exc |-> Exc("none", ""), total |-> left]
    IN  CASE a.kind = "http" /\ a.status \in policy.forcelist ->
                IF IsExhausted(left)
                THEN giveUp(Exc("RetryError", "too many error responses"))
                ELSE again
          [] a.kind = "http" ->
                [step |-> "response", exc |-> Exc("none", ""), total |-> total]
          [] a.kind = "connect_timeout" ->
                IF IsExhausted(left)
                THEN giveUp(Exc("ConnectTimeout", "connect timed out"))
                ELSE again
          [] a.kind = "read_timeout" ->
                IF ~policy.read
                THEN giveUp(Exc("ReadTimeout", "read timed out"))
                ELSE IF IsExhausted(left)
                THEN giveUp(Exc("ConnectionError", "max retries exceeded: read timed out"))
                ELSE again
          [] a.kind = "conn_error" ->
                IF IsExhausted(left)
                THEN giveUp(Exc("ConnectionError", "connection refused"))
                ELSE again

\* response.raise_for_status(): HTTPError for a 4xx or 5xx status.
RaisesForStatus(status) == 400 <= status /\ status < 600


-----------------------------------------------------------------------------
(* Python dicts the code builds are TLA+ functions from key to value.      *)

EmptyPyDict == <<>>
Err(msg, code) == [error |-> msg, status_code |-> code]
ErrNoCode(msg) == [error |-> msg]

\* j.get(key, default) for a j already known to be a dict.
GetOr(j, key, default) == IF HasKey(j, key) THEN ValueAt(j, key) ELSE default

-----------------------------------------------------------------------------
(* modules/scrap.py                                                        *)

\* Scraper._extract_general_info: twelve fields read with .get and defaults;
\* any exception (a .get on something that is not a dict) gives {}.
ExtractGeneralInfo(username, user_info, user_contest, user_contest_data) ==
    IF user_info.k = "obj" /\ user_contest.k = "obj" /\ user_contest_data.k = "obj"
    THEN [userName |-> username,
          fullName |-> GetOr(user_info, "name", JStr("")),
          profilePicture |-> GetOr(user_info, "profile_image_url", JStr("")),
          institute |-> GetOr(user_info, "institute_name", JStr("")),
          instituteRank |-> GetOr(user_info, "institute_rank", JStr("")),
          longestStreak |-> GetOr(user_info, "pod_solved_longest_streak", JStr("00")),
          codingScore |-> GetOr(user_info, "score", JNum(0)),
          monthlyScore |-> GetOr(user_info, "monthly_score", JNum(0)),
          currentRating |-> GetOr(user_contest_data, "current_rating", JNum(0)),
          userGlobalRank |-> GetOr(user_contest, "user_global_rank", JNum(0)),
          level |-> GetOr(user_contest, "user_stars", JNum(0)),
          totalProblemsSolved |-> GetOr(user_info, "total_problems_solved", JNum(0))]
    ELSE EmptyPyDict

ProblemsBase == "https://practice.geeksforgeeks.org/problems/"

\* How an f-string formats a value: a str as it is, None as "None", a number
\* in decimal (slugs are strings, numbers or null).
PyStr(j) ==
    CASE j.k = "str" -> j.s
      [] j.k = "null" -> "None"
      [] j.k = "num" -> ToString(j.n)

\* One entry of the questions list; the URL is the base followed by the slug.
QuestionRef(details) ==
    [question |-> GetOr(details, "pname", JStr("")),
     questionUrl |-> ProblemsBase \o PyStr(GetOr(details, "slug", JStr("")))]

\* The questions in the opposite order, for comparison.
QuestionsReversed(problems) ==
    [i \in DOMAIN problems.items |->
        QuestionRef(problems.items[Len(problems.items) + 1 - i].val)]

\* The questions of one difficulty, in the order of problems.values().
Questions(problems) ==
    [i \in DOMAIN problems.items |-> QuestionRef(problems.items[i].val)]

\* Scraper._extract_solved_stats: one entry per lowercased difficulty (a later
\* difficulty overwrites an earlier one with the same lowercased label); any
\* exception gives {}.
ExtractSolvedStats(user_submissions) ==
    IF /\ user_submissions.k = "obj"
       /\ \A i \in DOMAIN user_submissions.items :
            LET problems == user_submissions.items[i].val
            IN  /\ problems.k = "obj"
                /\ \A n \in DOMAIN problems.items : problems.items[n].val.k = "obj"
    THEN LET items == user_submissions.items
             labels == {StrLower(items[i].key) : i \in DOMAIN items}
             last(l) == CHOOSE i \in DOMAIN items :
                            /\ StrLower(items[i].key) = l
                            /\ \A n \in DOMAIN items :
                                 StrLower(items[n].key) = l => n <= i
         IN  [l \in labels |->
                 [count |-> Len(Questions(items[last(l)].val)),
                  questions |-> Questions(items[last(l)].val)]]
    ELSE EmptyPyDict

\* Scraper._parse_user_data.  A TypeError or AttributeError lands in the
\* `except Exception` clause; the presence tests rule a KeyError out.
ParseUserData(username, user_data) ==
    LET failed == Err("Failed to parse user data", 500)
        hasProps == PyIn("props", user_data)
    IN  IF ~hasProps.ok THEN failed
        ELSE IF ~hasProps.v THEN Err("Invalid data structure", 500)
        ELSE
        LET props == PyIndex(user_data, "props")
        IN  IF ~props.ok THEN failed
        ELSE
        LET hasPage == PyIn("pageProps", props.v)
        IN  IF ~hasPage.ok THEN failed
        ELSE IF ~hasPage.v THEN Err("Invalid data structure", 500)
        ELSE
        LET page_props == PyIndex(props.v, "pageProps")
        IN  IF ~page_props.ok THEN failed
        ELSE
        LET hasInfo == PyIn("userInfo", page_props.v)
        IN  IF ~hasInfo.ok THEN failed
        ELSE IF ~hasInfo.v THEN Err("User info not found", 404)
        ELSE
        LET user_info == PyIndex(page_props.v, "userInfo")
            user_contest == PyGet(page_props.v, "contestData", EmptyDict)
        IN  IF ~user_info.ok \/ ~user_contest.ok THEN failed
        ELSE
        LET user_contest_data == PyGet(user_contest.v, "user_contest_data", EmptyDict)
            user_submissions == PyGet(page_props.v, "userSubmissionsInfo", EmptyDict)
        IN  IF ~user_contest_data.ok \/ ~user_submissions.ok THEN failed
        ELSE [info |-> ExtractGeneralInfo(username, user_info.v, user_contest.v,
                                          user_contest_data.v),
              solvedStats |-> ExtractSolvedStats(user_submissions.v),
              status_code |-> 200]

\* A profile page: whether it holds <script id="__NEXT_DATA__"
\* type="application/json">, and that tag's .string: None, text that is not
\* JSON, or a JSON document.
Page(tag, text, doc) == [tag |-> tag, text |-> text, doc |-> doc]

\* The status the Timeout clause of fetchResponse returns.
ScraperTimeoutStatus == 504

\* The except clauses without the Timeout clause, for comparison.
ScraperExceptNoTimeoutClause(e) ==
    IF IsRequestException(e) THEN Err("Request failed: " \o e.text, 500)
    ELSE Err("An unexpected error occurred", 500)

\* The except clauses of fetchResponse, in order.
ScraperExcept(e) ==
    IF IsTimeout(e) THEN Err("Request timed out", ScraperTimeoutStatus)
    ELSE IF IsRequestException(e) THEN Err("Request failed: " \o e.text, 500)
    ELSE Err("An unexpected error occurred", 500)

\* The try body of Scraper.fetchResponse once session.get has returned.
ScraperOnResponse(username, status, page) ==
    IF status = 404 THEN Err("Profile not found", 404)
    ELSE IF RaisesForStatus(status)
    THEN ScraperExcept(Exc("HTTPError", "error status for url"))
    ELSE IF ~page.tag THEN Err("Could not find user data", 404)
    ELSE IF page.text = "none" THEN ScraperExcept(Exc("TypeError", "not str"))
    ELSE IF page.text = "malformed" THEN Err("Failed to parse user data", 500)
    ELSE ParseUserData(username, page.doc)

-----------------------------------------------------------------------------
(* modules/calendar.py and modules/contest.py                              *)

\* A JSON endpoint's response body: text that is not JSON, or a document.
Payload(text, doc) == [tag |-> TRUE, text |-> text, doc |-> doc]

\* The except clauses of both fetch_response methods, in order: none of the
\* results names a status code.
JsonExcept(e) ==
    IF IsRequestException(e) THEN ErrNoCode("Request failed: " \o e.text)
    ELSE IF IsValueError(e) THEN ErrNoCode("Failed to parse JSON response: " \o e.text)
    ELSE ErrNoCode("An unexpected error occurred: " \o e.text)

\* Calendar._parse_calendar_data.
ParseCalendarData(calendar_info) ==
    LET hasCount == PyIn("count", calendar_info)
        hasResult == PyIn("result", calendar_info)
    IN  IF ~hasCount.ok \/ ~hasResult.ok
        THEN ErrNoCode("Failed to parse calendar data")
        ELSE IF ~hasCount.v \/ ~hasResult.v
        THEN ErrNoCode("Unexpected API response format")
        ELSE LET count == PyIndex(calendar_info, "count")
                 dates == PyIndex(calendar_info, "result")
             IN  IF ~count.ok \/ ~dates.ok
                 THEN ErrNoCode("Failed to parse calendar data")
                 ELSE ("Total Submissions" :> count.v) @@
                      ("Submission Dates" :> dates.v)

\* Contest._parse_contest_data: the nested reads raise KeyError or TypeError
\* inside the try, which answers "Failed to parse contest data".
ParseContestData(contest_info) ==
    LET failed == ErrNoCode("Failed to parse contest data")
        hasRank == PyIn("user_global_rank", contest_info)
        hasCodes == PyIn("star_colour_codes", contest_info)
    IN  IF ~hasRank.ok \/ ~hasCodes.ok THEN failed
        ELSE IF ~hasRank.v \/ ~hasCodes.v
        THEN ErrNoCode("Unexpected API response format")
        ELSE
        LET stars == PyIndex(contest_info, "user_stars")
            data == PyIndex(contest_info, "user_contest_data")
            rank == PyIndex(contest_info, "user_global_rank")
        IN  IF ~stars.ok \/ ~data.ok \/ ~rank.ok THEN failed
        ELSE
        LET rating == PyIndex(data.v, "current_rating")
            total == PyIndex(data.v, "no_of_participated_contest")
            details == PyIndex(data.v, "contest_data")
        IN  IF ~rating.ok \/ ~total.ok \/ ~details.ok THEN failed
        ELSE ("Contest Data" :> (("Level" :> stars.v) @@ ("Rank" :> rating.v) @@
                                 ("Global Rank" :> rank.v) @@
                                 ("Total Contests" :> total.v)))
             @@ ("Contest Details" :> details.v)

\* The try body of a fetch_response once requests.post has returned; jsonError
\* is the class response.json() raises on text that is not JSON.
JsonOnResponse(route, status, payload, jsonError) ==
    IF RaisesForStatus(status)
    THEN JsonExcept(Exc("HTTPError", "error status for url"))
    ELSE IF payload.text # "json"
    THEN JsonExcept(Exc(jsonError, "Expecting value"))
    ELSE IF route = "calendar" THEN ParseCalendarData(payload.doc)
    ELSE ParseContestData(payload.doc)


-----------------------------------------------------------------------------
(* app.py: the rate limiter.  Time is counted in minutes; a counter lives  *)
(* for its window (fixed-window strategy) and is then dropped.             *)

RateLimitPerMinute == 10
RateLimitPerHour == 50
RateLimitPerDay == 200
MinuteLen == 1
HourLen == 60
DayLen == 1440

Limit(name, amount, window) == [name |-> name, amount |-> amount, window |-> window]

\* Limiter(default_limits=[RATE_LIMIT_PER_DAY, RATE_LIMIT_PER_HOUR], ...)
DefaultLimits == {Limit("day", RateLimitPerDay, DayLen),
                  Limit("hour", RateLimitPerHour, HourLen)}

\* default_limits_exempt_when=lambda: True
DefaultLimitsExempt == TRUE

\* A Resource.get without the decorator, for comparison.
UndecoratedLimits(route) == {}

\* @limiter.limit(RATE_LIMIT_PER_MINUTE) on each Resource.get
DecoratedLimits(route) == {Limit("minute", RateLimitPerMinute, MinuteLen)}

\* The limits checked for a request: a decorated route overrides the default
\* limits, and the default limits are exempt whenever the exemption holds.
ApplicableLimits(route) ==
    DecoratedLimits(route) \cup
        (IF DefaultLimitsExempt \/ DecoratedLimits(route) # {} THEN {}
         ELSE DefaultLimits)

\* The storage key of a limit: key_func=get_remote_address, scoped by the
\* endpoint the request resolved to.
LimitKey(client, route, lim) == <<client, route, lim.name>>

\* storage.incr(key, expiry): a new counter starts at 1 with the window ahead.
Incr(st, key, window) ==
    IF key \in DOMAIN st THEN [count |-> st[key].count + 1, ttl |-> st[key].ttl]
    ELSE [count |-> 1, ttl |-> window]

\* The storage after the request has hit every applicable limit.
AfterHits(st, client, route) ==
    LET L == ApplicableLimits(route)
        hit == {LimitKey(client, route, l) : l \in L}
        limOf(key) == CHOOSE l \in L : LimitKey(client, route, l) = key
    IN  [key \in DOMAIN st \cup hit |->
            IF key \in hit THEN Incr(st, key, limOf(key).window) ELSE st[key]]

\* limiter.hit(...) is False for a limit whose counter has passed its amount.
Exceeded(st, client, route) ==
    \E l \in ApplicableLimits(route) :
        st[LimitKey(client, route, l)].count > l.amount

\* ratelimit_handler
RateLimitBody ==
    [error |-> "Too many requests",
     message |-> "Rate limit exceeded. Please try again in a minute.",
     status_code |-> 429]

-----------------------------------------------------------------------------
(* functools.lru_cache(maxsize=100) on fetch_response(self).               *)

maxsize == 100

\* A key made of the object's fields, for comparison.
CacheKeyStructural(o) == <<o.username, o.year>>

\* The cache key is made of the call's arguments, here self alone; Calendar and
\* Contest define neither __eq__ nor __hash__, so two objects are the same key
\* only if they are the same object.
CacheKey(o) == o.id

CacheIndex(cache, key) ==
    IF \E i \in DOMAIN cache : cache[i].key = key
    THEN CHOOSE i \in DOMAIN cache : cache[i].key = key
    ELSE 0

\* A hit moves the entry to the most recently used end.
CacheTouch(cache, i) ==
    [n \in 1..Len(cache) |->
        IF n < i THEN cache[n] ELSE IF n < Len(cache) THEN cache[n + 1] ELSE cache[i]]

\* A store that evicts the most recently used entry when full, for comparison.
CacheStoreEvictNewest(cache, o, value) ==
    LET entry == [key |-> o.id, self |-> o, value |-> value]
    IN  IF Len(cache) >= 100 THEN Append(SubSeq(cache, 1, Len(cache) - 1), entry)
        ELSE Append(cache, entry)

\* A miss stores the value, evicting the least recently used entry when full.
CacheStore(cache, o, value) ==
    LET entry == [key |-> CacheKey(o), self |-> o, value |-> value]
    IN  IF Len(cache) >= maxsize THEN Append(Tail(cache), entry)
        ELSE Append(cache, entry)

-----------------------------------------------------------------------------
(* app.py: the three Resource.get handlers.                                *)

NoYear == [present |-> FALSE, s |-> <<>>]
YearArg(s) == [present |-> TRUE, s |-> s]

\* `if year:` on request.args.get('year'): None and '' are falsy.
YearGiven(y) == y.present /\ Truthy(y.s)

\* A handler that looks at the year before the username, for comparison.
RouteEntryYearFirst(route, username, y, now) ==
    IF route # "profile" /\ YearGiven(y) /\ ~validate_year(y.s, now)
    THEN [step |-> "reply", body |-> Err("Invalid year format", 400), year |-> 0]
    ELSE IF ~validate_username(username)
    THEN [step |-> "reply", body |-> Err("Invalid username format", 400), year |-> 0]
    ELSE [step |-> "extract", body |-> EmptyPyDict,
          year |-> IF route = "profile" THEN 0
                   ELSE IF YearGiven(y) THEN PyInt(y.s).val ELSE now]

\* The handler up to the construction of the extractor: a 400 reply, or the
\* year the extractor is built with (0 for the profile route, which has none).
RouteEntry(route, username, y, now) ==
    IF ~validate_username(username)
    THEN [step |-> "reply", body |-> Err("Invalid username format", 400), year |-> 0]
    ELSE IF route = "profile"
    THEN [step |-> "extract", body |-> EmptyPyDict, year |-> 0]
    ELSE IF YearGiven(y)
    THEN IF ~validate_year(y.s, now)
         THEN [step |-> "reply", body |-> Err("Invalid year format", 400), year |-> 0]
         ELSE [step |-> "extract", body |-> EmptyPyDict, year |-> PyInt(y.s).val]
    ELSE [step |-> "extract", body |-> EmptyPyDict, year |-> now]

Returned(value) == [kind |-> "returned", value |-> value, exc |-> Exc("none", "")]
Raised(e) == [kind |-> "raised", value |-> EmptyPyDict, exc |-> e]
NoResult == [kind |-> "none", value |-> EmptyPyDict, exc |-> Exc("none", "")]

\* The handler from the extractor's result to its return: (body, status).
RouteResponse(route, res) ==
    IF res.kind = "raised"
    THEN IF route = "profile"
         THEN [body |-> [error |-> "Internal Server Error", message |-> res.exc.text,
                         status_code |-> 500],
               status |-> 500]
         ELSE [body |-> Err("Internal Server Error", 500), status |-> 500]
    ELSE IF "error" \in DOMAIN res.value
    THEN [body |-> res.value,
          status |-> IF "status_code" \in DOMAIN res.value
                     THEN res.value.status_code ELSE 500]
    ELSE [body |-> res.value, status |-> 200]

NoReq == [client |-> "", route |-> "", username |-> <<>>, year |-> NoYear]
NoObj == [id |-> 0, username |-> <<>>, year |-> 0]
NoResp == [body |-> EmptyPyDict, status |-> 0]

CacheOf(route) == IF route = "calendar" THEN cal_cache ELSE con_cache


-----------------------------------------------------------------------------
(* The state machine.                                                      *)

Init ==
    /\ current_year \in BaseYear..(BaseYear + 1)
    /\ storage = <<>>
    /\ cal_cache = <<>>
    /\ con_cache = <<>>
    /\ next_id = 1
    /\ pc = [w \in Workers |-> "idle"]
    /\ req = [w \in Workers |-> NoReq]
    /\ obj = [w \in Workers |-> NoObj]
    /\ retries = [w \in Workers |-> 0]
    /\ log = [w \in Workers |-> <<>>]
    /\ result = [w \in Workers |-> NoResult]
    /\ resp = [w \in Workers |-> NoResp]
    /\ arrivals = [c \in Clients |-> 0]
    /\ served = [c \in Clients |-> 0]

\* What a handler does on entry, after the limiter let the request through:
\* validation, then the construction of the extractor and, on the calendar and
\* contest routes, the lru_cache lookup of fetch_response.
HandlerStart(route, username, y) ==
    LET entry == RouteEntry(route, username, y, current_year)
        o == [id |-> IF route = "profile" THEN 0 ELSE next_id,
              username |-> username, year |-> entry.year]
        cache == CacheOf(route)
        i == IF route = "profile" THEN 0 ELSE CacheIndex(cache, CacheKey(o))
        same == [pc |-> "done", obj |-> NoObj, retries |-> 0, result |-> NoResult,
                 resp |-> NoResp, cache |-> cache, next_id |-> next_id]
    IN  IF entry.step = "reply"
        THEN [same EXCEPT !.resp = [body |-> entry.body, status |-> 400]]
        ELSE IF route = "profile"
        THEN [same EXCEPT !.pc = "fetching", !.obj = o,
                          !.retries = ScraperRetry.total]
        ELSE IF i # 0
        THEN [same EXCEPT !.obj = o, !.next_id = next_id + 1,
                          !.cache = CacheTouch(cache, i),
                          !.result = Returned(cache[i].value),
                          !.resp = RouteResponse(route, Returned(cache[i].value))]
        ELSE [same EXCEPT !.pc = "fetching", !.obj = o, !.next_id = next_id + 1,
                          !.retries = DefaultRetry.total]

\* A request arrives at an idle worker: the limiter's decorator runs first and
\* counts it, then the handler body runs up to its reply or its upstream call.
Receive(w, c, route, username, y, burst) ==
    /\ pc[w] = "idle"
    /\ arrivals[c] < burst
    /\ LET st2 == AfterHits(storage, c, route)
           limited == Exceeded(st2, c, route)
           h == IF limited
                THEN [pc |-> "done", obj |-> NoObj, retries |-> 0,
                      result |-> NoResult,
                      resp |-> [body |-> RateLimitBody, status |-> 429],
                      cache |-> CacheOf(route), next_id |-> next_id]
                ELSE HandlerStart(route, username, y)
       IN  /\ h.next_id <= MaxObjects + 1
           /\ storage' = st2
           /\ arrivals' = [arrivals EXCEPT ![c] = @ + 1]
           /\ served' = IF limited THEN served ELSE [served EXCEPT ![c] = @ + 1]
           /\ req' = [req EXCEPT ![w] = [client |-> c, route |-> route,
                                         username |-> username, year |-> y]]
           /\ pc' = [pc EXCEPT ![w] = h.pc]
           /\ obj' = [obj EXCEPT ![w] = h.obj]
           /\ retries' = [retries EXCEPT ![w] = h.retries]
           /\ result' = [result EXCEPT ![w] = h.result]
           /\ resp' = [resp EXCEPT ![w] = h.resp]
           /\ log' = [log EXCEPT ![w] = <<>>]
           /\ next_id' = h.next_id
           /\ cal_cache' = IF route = "calendar" THEN h.cache ELSE cal_cache
           /\ con_cache' = IF route = "contest" THEN h.cache ELSE con_cache
    /\ UNCHANGED current_year

\* What the extractor hands to the route once its upstream call has ended with
\* a response (a) or an exception (out.exc).  session.close() in the finally
\* clause of fetchResponse runs outside every except clause: if it raises, the
\* exception leaves the extractor.
ExtractorResult(route, username, out, a, jsonError, closeOk) ==
    IF route = "profile"
    THEN IF ~closeOk THEN Raised(Exc("OSError", "session close failed"))
         ELSE IF out.step = "raise" THEN Returned(ScraperExcept(out.exc))
         ELSE Returned(ScraperOnResponse(username, a.status, a.body))
    ELSE IF out.step = "raise" THEN Returned(JsonExcept(out.exc))
    ELSE Returned(JsonOnResponse(route, a.status, a.body, jsonError))

\* The upstream answers one attempt of the worker's call.
Attempt(w, a, jsonError, closeOk) ==
    /\ pc[w] = "fetching"
    /\ LET route == req[w].route
           policy == IF route = "profile" THEN ScraperRetry ELSE DefaultRetry
           out == AttemptOutcome(policy, retries[w], a)
           res == ExtractorResult(route, req[w].username, out, a, jsonError, closeOk)
           stored == route # "profile" /\ out.step # "retry" /\ res.kind = "returned"
       IN  /\ log' = [log EXCEPT ![w] = Append(@, a)]
           /\ retries' = [retries EXCEPT ![w] = out.total]
           /\ IF out.step = "retry"
              THEN UNCHANGED <<pc, result, resp>>
              ELSE /\ pc' = [pc EXCEPT ![w] = "done"]
                   /\ result' = [result EXCEPT ![w] = res]
                   /\ resp' = [resp EXCEPT ![w] = RouteResponse(route, res)]
           /\ cal_cache' = IF stored /\ route = "calendar"
                           THEN CacheStore(cal_cache, obj[w], res.value) ELSE cal_cache
           /\ con_cache' = IF stored /\ route = "contest"
                           THEN CacheStore(con_cache, obj[w], res.value) ELSE con_cache
    /\ UNCHANGED <<current_year, storage, next_id, req, obj, arrivals, served>>

\* The response has been sent; the worker is free again.
Reply(w) ==
    /\ pc[w] = "done"
    /\ pc' = [pc EXCEPT ![w] = "idle"]
    /\ req' = [req EXCEPT ![w] = NoReq]
    /\ obj' = [obj EXCEPT ![w] = NoObj]
    /\ retries' = [retries EXCEPT ![w] = 0]
    /\ log' = [log EXCEPT ![w] = <<>>]
    /\ result' = [result EXCEPT ![w] = NoResult]
    /\ resp' = [resp EXCEPT ![w] = NoResp]
    /\ UNCHANGED <<current_year, storage, cal_cache, con_cache, next_id,
                   arrivals, served>>

\* The response has been sent and the process ends (a serverless instance that
\* is not reused): the limiter's memory storage and both caches start empty in
\* the next process.
Recycle(w) ==
    /\ pc[w] = "done"
    /\ \A v \in Workers \ {w} : pc[v] = "idle"
    /\ storage' = <<>>
    /\ cal_cache' = <<>>
    /\ con_cache' = <<>>
    /\ next_id' = 1
    /\ pc' = [pc EXCEPT ![w] = "idle"]
    /\ req' = [req EXCEPT ![w] = NoReq]
    /\ obj' = [obj EXCEPT ![w] = NoObj]
    /\ retries' = [retries EXCEPT ![w] = 0]
    /\ log' = [log EXCEPT ![w] = <<>>]
    /\ result' = [result EXCEPT ![w] = NoResult]
    /\ resp' = [resp EXCEPT ![w] = NoResp]
    /\ arrivals' = [c \in Clients |-> 0]
    /\ served' = [c \in Clients |-> 0]
    /\ UNCHANGED current_year

\* A minute passes: every counter's window shrinks and ended windows are dropped.
Tick ==
    /\ \E c \in Clients : arrivals[c] > 0
    /\ storage' = [key \in {k \in DOMAIN storage : storage[k].ttl > 1} |->
                      [count |-> storage[key].count, ttl |-> storage[key].ttl - 1]]
    /\ arrivals' = [c \in Clients |-> 0]
    /\ served' = [c \in Clients |-> 0]
    /\ UNCHANGED <<current_year, cal_cache, con_cache, next_id, pc, req, obj,
                   retries, log, result, resp>>


-----------------------------------------------------------------------------
(* The inputs the specifications draw from.                                *)

Client1 == "10.0.0.1"

NameAlphabet == {"a", "Z", "7", "-", "@", "\n"}
NameStrings == Strings(NameAlphabet, 1, MaxNameLen)
GoodName == <<"a", "-", "7">>
BadName == <<"a", "@">>
OtherName == <<"Z">>

YearAlphabet == {"0", "1", "2", "a", "-", " "}
YearArgs == {NoYear} \cup {YearArg(s) : s \in Strings(YearAlphabet, 0, MaxYearLen)}
Year2019 == YearArg(<<"2", "0", "1", "9">>)
Year1999 == YearArg(<<"1", "9", "9", "9">>)

UserInfoSample ==
    JObj(<<Member("name", JStr("Ada")), Member("total_problems_solved", JNum(42))>>)
ContestSample ==
    JObj(<<Member("user_global_rank", JNum(7)),
           Member("star_colour_codes", JList(<<>>)),
           Member("user_stars", JNum(2)),
           Member("user_contest_data",
                  JObj(<<Member("current_rating", JNum(1500)),
                         Member("no_of_participated_contest", JNum(4)),
                         Member("contest_data", JList(<<>>))>>))>>)
SubmissionsSample ==
    JObj(<<Member("Easy",
                  JObj(<<Member("1", JObj(<<Member("pname", JStr("Two Sum")),
                                            Member("slug", JStr("two-sum"))>>))>>))>>)

\* {"props": {"pageProps": page_props}}
Doc(page_props) == JObj(<<Member("props", JObj(<<Member("pageProps", page_props)>>))>>)

DocFull == Doc(JObj(<<Member("userInfo", UserInfoSample),
                      Member("contestData", ContestSample),
                      Member("userSubmissionsInfo", SubmissionsSample)>>))
DocBare == Doc(JObj(<<Member("userInfo", EmptyDict)>>))
DocNoUserInfo == Doc(JObj(<<Member("contestData", ContestSample)>>))
DocNoPageProps == JObj(<<Member("props", EmptyDict)>>)
DocNoProps == EmptyDict
DocNullContest == Doc(JObj(<<Member("userInfo", UserInfoSample),
                             Member("contestData", JNull)>>))

\* "userInfo": null, and "userSubmissionsInfo": [] beside a good userInfo.
DocNullUserInfo == Doc(JObj(<<Member("userInfo", JNull)>>))
DocListSubmissions == Doc(JObj(<<Member("userInfo", UserInfoSample),
                                 Member("userSubmissionsInfo", JList(<<>>))>>))

ProfileDocs == {DocFull, DocBare, DocNoUserInfo, DocNoPageProps, DocNoProps,
                DocNullContest, DocNullUserInfo, DocListSubmissions,
                Doc(JNull), JNull, JList(<<>>)}

NoPage == Page(FALSE, "none", JNull)
ProfilePages == {NoPage, Page(TRUE, "none", JNull), Page(TRUE, "malformed", JNull)}
                \cup {Page(TRUE, "json", d) : d \in ProfileDocs}

CalendarSample ==
    JObj(<<Member("count", JNum(3)),
           Member("result", JObj(<<Member("2020-01-01", JNum(3))>>))>>)
CalendarDocs == {CalendarSample, JObj(<<Member("count", JNum(3))>>), JNull}
ContestDocs == {ContestSample,
                JObj(<<Member("user_global_rank", JNum(7)),
                       Member("star_colour_codes", JList(<<>>))>>),
                EmptyDict, JNull}

NoPayload == Payload("malformed", JNull)
ErrorStatuses == {404, 403, 500, 503}

\* userSubmissionsInfo mappings: no difficulty, one, or two with distinct
\* labels, each with up to MaxProblems problems in upstream order.
DetailSamples ==
    {JObj(<<Member("pname", JStr("Two Sum")), Member("slug", JStr("two-sum"))>>),
     JObj(<<Member("pname", JStr("3Sum"))>>)}
ProblemIds == <<"1", "2", "3">>
ProblemMaps ==
    {JObj([i \in 1..n |-> Member(ProblemIds[i], ds[i])]) :
        n \in 0..MaxProblems, ds \in [1..MaxProblems -> DetailSamples]}
DifficultyLabels == {"Easy", "EASY", "Medium"}
SubmissionMaps ==
    {JObj(<<>>)}
    \cup {JObj(<<Member(l, ps)>>) : l \in DifficultyLabels, ps \in ProblemMaps}
    \cup {JObj(<<Member(ls[1], ps[1]), Member(ls[2], ps[2])>>) :
            ls \in {l \in DifficultyLabels \X DifficultyLabels : l[1] # l[2]},
            ps \in ProblemMaps \X ProblemMaps}
StatsPages ==
    {Page(TRUE, "json", Doc(JObj(<<Member("userInfo", UserInfoSample),
                                   Member("userSubmissionsInfo", m)>>))) :
        m \in SubmissionMaps}

\* Every answer the upstream may give to one attempt of a route's call.
Answers(route) ==
    {NetAnswer(k) : k \in NetFailures}
    \cup {HttpAnswer(st, IF route = "profile" THEN NoPage ELSE NoPayload) :
            st \in ErrorStatuses}
    \cup (IF route = "profile" THEN {HttpAnswer(200, p) : p \in ProfilePages}
          ELSE {HttpAnswer(200, NoPayload)} \cup
               {HttpAnswer(200, Payload("json", d)) :
                  d \in IF route = "calendar" THEN CalendarDocs ELSE ContestDocs})

\* The answer of an upstream that is up and knows the user.
GoodAnswer(route) ==
    HttpAnswer(200, IF route = "profile" THEN Page(TRUE, "json", DocFull)
                    ELSE IF route = "calendar" THEN Payload("json", CalendarSample)
                    ELSE Payload("json", ContestSample))

\* The answers of an upstream that is up and knows the user, or fails at once.
PlainAnswers(route) ==
    {HttpAnswer(404, IF route = "profile" THEN NoPage ELSE NoPayload),
     GoodAnswer(route)}

\* The class response.json() raises on a body that is not JSON, by version of
\* the requests library.
JsonErrorClasses == {"requests.JSONDecodeError", "json.JSONDecodeError"}

-----------------------------------------------------------------------------
(* The specifications.                                                     *)

\* Any upstream answer, one request at a time, each on a fresh process.
Next ==
    \E w \in {1} :
        \/ /\ pc[w] = "idle"
           /\ \E route \in Routes, y \in {NoYear, Year2019} :
                Receive(w, Client1, route, GoodName, y, 1)
        \/ /\ pc[w] = "fetching"
           /\ \E a \in Answers(req[w].route), e \in JsonErrorClasses,
                 closeOk \in BOOLEAN :
                Attempt(w, a, e, closeOk)
        \/ Recycle(w)

Spec == Init /\ [][Next]_vars

\* Every username, one request at a time, each on a fresh process.
NextUser ==
    \E w \in {1} :
        \/ /\ pc[w] = "idle"
           /\ \E route \in Routes, u \in NameStrings, y \in {NoYear, Year2019} :
                Receive(w, Client1, route, u, y, 1)
        \/ /\ pc[w] = "fetching"
           /\ \E a \in PlainAnswers(req[w].route) :
                Attempt(w, a, "json.JSONDecodeError", TRUE)
        \/ Recycle(w)

SpecUser == Init /\ [][NextUser]_vars

\* Every year argument, one request at a time, each on a fresh process.
NextYear ==
    \E w \in {1} :
        \/ /\ pc[w] = "idle"
           /\ \E route \in Routes, u \in {GoodName, BadName}, y \in YearArgs :
                Receive(w, Client1, route, u, y, 1)
        \/ /\ pc[w] = "fetching"
           /\ \E a \in PlainAnswers(req[w].route) :
                Attempt(w, a, "json.JSONDecodeError", TRUE)
        \/ Recycle(w)

SpecYear == Init /\ [][NextYear]_vars

\* One client sending a burst to the three routes of a long-lived process,
\* all of it within one minute (so within one hour and one day).
NextRate ==
    \E w \in {1} :
        \/ /\ pc[w] = "idle"
           /\ \E route \in Routes, u \in {GoodName, BadName}, y \in {NoYear, Year1999} :
                Receive(w, Client1, route, u, y, MaxHits)
        \/ /\ pc[w] = "fetching"
           /\ Attempt(w, GoodAnswer(req[w].route), "json.JSONDecodeError", TRUE)
        \/ Reply(w)

SpecRate == Init /\ [][NextRate]_vars

\* Repeated calendar and contest requests to a long-lived process.
NextCache ==
    \/ \E w \in {1} :
        \/ /\ pc[w] = "idle"
           /\ \E route \in {"calendar", "contest"}, y \in {NoYear, Year2019} :
                Receive(w, Client1, route, GoodName, y, MaxHits)
        \/ /\ pc[w] = "fetching"
           /\ \E a \in PlainAnswers(req[w].route) \cup {NetAnswer("read_timeout")} :
                Attempt(w, a, "json.JSONDecodeError", TRUE)
        \/ Reply(w)
    \/ Tick

SpecCache == Init /\ [][NextCache]_vars

\* A cache as n earlier requests for one (username, year) have left it: one
\* entry per request, each keyed on its own object.  Objects built before the
\* behaviour starts are numbered below 1, oldest first.
FilledCache(n, value) ==
    [i \in 1..n |->
        LET o == [id |-> i - n, username |-> GoodName, year |-> BaseYear]
        IN  [key |-> CacheKey(o), self |-> o, value |-> value]]

\* A long-lived process whose calendar cache is full and whose contest cache is
\* one entry short of full.
InitLru ==
    /\ current_year = BaseYear
    /\ storage = <<>>
    /\ cal_cache = FilledCache(maxsize, ParseCalendarData(CalendarSample))
    /\ con_cache = FilledCache(maxsize - 1, ParseContestData(ContestSample))
    /\ next_id = 1
    /\ pc = [w \in Workers |-> "idle"]
    /\ req = [w \in Workers |-> NoReq]
    /\ obj = [w \in Workers |-> NoObj]
    /\ retries = [w \in Workers |-> 0]
    /\ log = [w \in Workers |-> <<>>]
    /\ result = [w \in Workers |-> NoResult]
    /\ resp = [w \in Workers |-> NoResp]
    /\ arrivals = [c \in Clients |-> 0]
    /\ served = [c \in Clients |-> 0]

\* Requests to the three routes of that process, with time passing.
NextLru ==
    \/ \E w \in {1} :
        \/ /\ pc[w] = "idle"
           /\ \E route \in Routes :
                Receive(w, Client1, route, GoodName, NoYear, MaxHits)
        \/ /\ pc[w] = "fetching"
           /\ \E a \in PlainAnswers(req[w].route) :
                Attempt(w, a, "json.JSONDecodeError", TRUE)
        \/ Reply(w)
    \/ Tick

SpecLru == InitLru /\ [][NextLru]_vars

\* Requests handled in parallel: every worker takes requests for the calendar
\* route while the others are in flight.
NextPar ==
    \E w \in Workers :
        \/ /\ pc[w] = "idle"
           /\ \E u \in {GoodName, OtherName} :
                Receive(w, Client1, "calendar", u, NoYear, MaxHits)
        \/ /\ pc[w] = "fetching"
           /\ \E a \in PlainAnswers(req[w].route) :
                Attempt(w, a, "json.JSONDecodeError", TRUE)
        \/ Reply(w)

SpecPar == Init /\ [][NextPar]_vars

\* Profile requests against pages with every userSubmissionsInfo mapping, one
\* request at a time, each on a fresh process.
NextStats ==
    \E w \in {1} :
        \/ /\ pc[w] = "idle"
           /\ Receive(w, Client1, "profile", GoodName, NoYear, 1)
        \/ /\ pc[w] = "fetching"
           /\ \E p \in StatsPages :
                Attempt(w, HttpAnswer(200, p), "json.JSONDecodeError", TRUE)
        \/ Recycle(w)

SpecStats == Init /\ [][NextStats]_vars


-----------------------------------------------------------------------------
(* Properties.                                                             *)

Handling(w) == pc[w] # "idle"
Done(w) == pc[w] = "done"
LastAnswer(w) == log[w][Len(log[w])]

\* The whole string is a non-empty run of characters of the username class.
WholeStringInClass(s) ==
    /\ Len(s) >= 1
    /\ \A i \in 1..Len(s) : s[i] \in UsernameClass

RejectedUsername(w) ==
    /\ Done(w)
    /\ resp[w].status = 400
    /\ resp[w].body = Err("Invalid username format", 400)

\* C1: on every route, a request that the limiter let through is answered 400
\* "Invalid username format" exactly when its username is not, as a whole, a
\* non-empty string over A-Z, a-z, 0-9, '_' and '-'.
C1_UsernameWholeString ==
    \A w \in Workers :
        Handling(w) /\ resp[w].status # 429 =>
            (RejectedUsername(w) <=> ~WholeStringInClass(req[w].username))


\* The extractor was built for the request: validation let it through.
Accepted(w) == Handling(w) /\ obj[w] # NoObj

RejectedYear(w) ==
    /\ Done(w)
    /\ resp[w].status = 400
    /\ resp[w].body = Err("Invalid year format", 400)

\* The request is on a route that reads the year argument, and neither the
\* limiter nor the username check has stopped it.
ReadsYear(w) ==
    /\ Handling(w)
    /\ req[w].route \in {"calendar", "contest"}
    /\ resp[w].status # 429
    /\ ~RejectedUsername(w)

\* The string parses as an integer y with 2000 <= y <= current year.
GoodYear(s) ==
    /\ PyInt(s).ok
    /\ 2000 <= PyInt(s).val
    /\ PyInt(s).val <= current_year

\* C2, as claimed: whenever the year argument is present it is accepted only if
\* it parses as an integer in 2000..current year and is rejected with 400
\* otherwise (the empty string included); only an absent argument gives the
\* current year.
C2_PresentYearValidated ==
    \A w \in Workers :
        ReadsYear(w) =>
            IF req[w].year.present
            THEN /\ Accepted(w) <=> GoodYear(req[w].year.s)
                 /\ RejectedYear(w) <=> ~GoodYear(req[w].year.s)
                 /\ Accepted(w) => obj[w].year = PyInt(req[w].year.s).val
            ELSE Accepted(w) /\ obj[w].year = current_year

\* C2, amended: a year argument that is present and not empty is accepted only
\* if it parses as an integer in 2000..current year, and is rejected with 400
\* "Invalid year format" otherwise; an absent or empty argument gives the
\* current year.
C2_NonEmptyYearValidated ==
    \A w \in Workers :
        ReadsYear(w) =>
            IF req[w].year.present /\ req[w].year.s # <<>>
            THEN /\ Accepted(w) <=> GoodYear(req[w].year.s)
                 /\ RejectedYear(w) <=> ~GoodYear(req[w].year.s)
                 /\ Accepted(w) => obj[w].year = PyInt(req[w].year.s).val
            ELSE Accepted(w) /\ obj[w].year = current_year

\* C2's case: the lowest year of the range, given as "2000", is accepted and
\* becomes the extractor's year.
C2_Witness ==
    \E w \in Workers :
        /\ ReadsYear(w)
        /\ req[w].year = YearArg(<<"2", "0", "0", "0">>)
        /\ Accepted(w)
        /\ obj[w].year = 2000

\* C3: the 11th request of one client within the minute is answered 429 with
\* the rate-limit body, whichever routes the eleven went to.
C3_EleventhIsLimited ==
    \A w \in Workers :
        Done(w) /\ arrivals[req[w].client] > RateLimitPerMinute =>
            resp[w] = [body |-> RateLimitBody, status |-> 429]

\* C4: per client, never more than 10 requests served in the minute, 50 in the
\* hour and 200 in the day (the burst lies within one minute, hence one hour
\* and one day), and a request beyond any of the three is answered 429.
C4_AllWindowsEnforced ==
    \A c \in Clients :
        /\ served[c] <= RateLimitPerMinute
        /\ served[c] <= RateLimitPerHour
        /\ served[c] <= RateLimitPerDay
        /\ \A w \in Workers :
              Done(w) /\ req[w].client = c /\ arrivals[c] > RateLimitPerMinute =>
                  resp[w].status = 429

\* C5: a calendar or contest request whose (username, year) was fetched with
\* success before, and is still in the route's cache, is served from the
\* cache: it makes no second upstream call.
C5_SecondServedFromCache ==
    \A w \in Workers :
        pc[w] = "fetching" /\ req[w].route \in {"calendar", "contest"} =>
            ~\E i \in DOMAIN CacheOf(req[w].route) :
                /\ CacheOf(req[w].route)[i].self.username = obj[w].username
                /\ CacheOf(req[w].route)[i].self.year = obj[w].year
                /\ "error" \notin DOMAIN CacheOf(req[w].route)[i].value

\* The upstream answered 503 to every attempt of the worker's profile fetch.
All503(w) ==
    /\ Handling(w)
    /\ req[w].route = "profile"
    /\ log[w] # <<>>
    /\ \A i \in DOMAIN log[w] : log[w][i].kind = "http" /\ log[w][i].status = 503

\* C6, as claimed: against an upstream that always answers 503 the profile
\* fetch makes exactly 3 attempts and the route then answers 500 or 504.
C6_ThreeAttempts ==
    \A w \in Workers :
        All503(w) =>
            /\ Len(log[w]) <= 3
            /\ Len(log[w]) < 3 => pc[w] = "fetching"
            /\ Len(log[w]) = 3 => Done(w) /\ resp[w].status \in {500, 504}

\* C6, amended: against an upstream that always answers 503 the profile fetch
\* makes exactly 4 attempts (1 initial + 3 retries) and the route then answers
\* 500; it never makes a 5th attempt.
C6_FourAttempts ==
    \A w \in Workers :
        All503(w) =>
            /\ Len(log[w]) <= 4
            /\ Len(log[w]) < 4 => pc[w] = "fetching"
            /\ Len(log[w]) = 4 => Done(w) /\ resp[w].status = 500

\* C6's case: the fourth 503 in a row has been answered and the route has
\* replied with the extractor's error.
C6_Witness ==
    \E w \in Workers :
        /\ All503(w)
        /\ Len(log[w]) = 4
        /\ Done(w)
        /\ result[w].kind = "returned"
        /\ resp[w].status = 500

\* The worker's upstream call ended in a timeout.
TimedOut(w) ==
    /\ Done(w)
    /\ log[w] # <<>>
    /\ LastAnswer(w).kind \in {"connect_timeout", "read_timeout"}

\* C7: on every route, a request whose upstream call timed out is answered 504.
C7_TimeoutIs504 ==
    \A w \in Workers : TimedOut(w) => resp[w].status = 504

\* The profile extractor returned, having seen this last answer.
ProfileReturned(w) ==
    /\ Done(w)
    /\ req[w].route = "profile"
    /\ result[w].kind = "returned"
    /\ log[w] # <<>>

GotPage(w) == LastAnswer(w).kind = "http" /\ LastAnswer(w).status = 200
GotDoc(w) ==
    GotPage(w) /\ LastAnswer(w).body.tag /\ LastAnswer(w).body.text = "json"

\* The embedded document is a mapping that holds props.pageProps.
HasPageProps(doc) ==
    /\ doc.k = "obj" /\ HasKey(doc, "props")
    /\ ValueAt(doc, "props").k = "obj" /\ HasKey(ValueAt(doc, "props"), "pageProps")

PagePropsOf(doc) == ValueAt(ValueAt(doc, "props"), "pageProps")

\* props.pageProps of the embedded document is a mapping.
PagePropsIsMapping(doc) == HasPageProps(doc) /\ PagePropsOf(doc).k = "obj"

\* The embedded document holds no userInfo at props.pageProps.
WithoutUserInfo(doc) ==
    ~(PagePropsIsMapping(doc) /\ HasKey(PagePropsOf(doc), "userInfo"))

ResultStatus(w) == result[w].value.status_code

\* The parts of C8 that the amendment leaves as claimed.
C8_Common(w) ==
    /\ LastAnswer(w).kind = "http" /\ LastAnswer(w).status = 404 =>
          result[w].value = Err("Profile not found", 404)
    /\ GotPage(w) /\ ~LastAnswer(w).body.tag => ResultStatus(w) = 404
    /\ GotPage(w) /\ LastAnswer(w).body.tag /\ LastAnswer(w).body.text = "malformed" =>
          ResultStatus(w) = 500
    /\ LastAnswer(w).kind = "conn_error" => ResultStatus(w) = 500
    /\ LastAnswer(w).kind = "http" /\ LastAnswer(w).status \in {403, 500, 503} =>
          ResultStatus(w) = 500
    /\ "error" \in DOMAIN result[w].value => ResultStatus(w) \in {404, 500, 504}

C9_ErrorsCarryStatus ==
    \A w \in Workers :
        Done(w) =>
            /\ result[w].kind = "returned" /\ "error" \in DOMAIN result[w].value =>
                  "status_code" \in DOMAIN result[w].value
            /\ resp[w].status >= 400 =>
                  /\ "error" \in DOMAIN resp[w].body
                  /\ "status_code" \in DOMAIN resp[w].body
                  /\ resp[w].body.status_code = resp[w].status

\* C10: a validated request is answered 200 for a result without an error
\* field, the result's own status code for an error result (500 when it names
\* none), and 500 with a body that does not carry the exception's text when
\* the extractor raises.
C10_RouterAnswers ==
    \A w \in Workers :
        Done(w) /\ result[w].kind # "none" =>
            /\ result[w].kind = "returned" /\ "error" \notin DOMAIN result[w].value =>
                  resp[w].status = 200
            /\ result[w].kind = "returned" /\ "error" \in DOMAIN result[w].value =>
                  resp[w].status = IF "status_code" \in DOMAIN result[w].value
                                   THEN result[w].value.status_code ELSE 500
            /\ result[w].kind = "raised" =>
                  /\ resp[w].status = 500
                  /\ "message" \in DOMAIN resp[w].body =>
                        resp[w].body.message # result[w].exc.text

\* The twelve fields of a profile's info mapping.
InfoFields ==
    {"userName", "fullName", "profilePicture", "institute", "instituteRank",
     "longestStreak", "codingScore", "monthlyScore", "currentRating",
     "userGlobalRank", "level", "totalProblemsSolved"}

\* The profile extractor returned a result without an error field.
ProfileSuccess(w) == ProfileReturned(w) /\ "error" \notin DOMAIN result[w].value

\* userSubmissionsInfo of the page the worker's fetch ended with ({} when the
\* page names none).
SubmissionsOf(w) ==
    GetOr(PagePropsOf(LastAnswer(w).body.doc), "userSubmissionsInfo", EmptyDict)

\* C11: a profile result without an error field holds an info mapping with all
\* twelve profile fields and a solvedStats mapping with an entry for every
\* upstream difficulty; a failed extraction never shows as a success with an
\* empty info or solvedStats.
C11_SuccessFullyPopulated ==
    \A w \in Workers :
        ProfileSuccess(w) =>
            /\ DOMAIN result[w].value.info = InfoFields
            /\ SubmissionsOf(w).k = "obj"
            /\ \A i \in DOMAIN SubmissionsOf(w).items :
                  StrLower(SubmissionsOf(w).items[i].key)
                      \in DOMAIN result[w].value.solvedStats

\* The request fails the handler's validation of its username or its year.
Invalid(r) ==
    /\ r.route \in Routes
    /\ RouteEntry(r.route, r.username, r.year, current_year).step = "reply"

\* The count of the client's minute window on a route (0 before its first hit).
MinuteCount(st, c, route) ==
    IF <<c, route, "minute">> \in DOMAIN st THEN st[<<c, route, "minute">>].count
    ELSE 0

\* C12, as claimed: validation runs before the rate-limit check, so an invalid
\* request is answered 400 and leaves the limiter's counters as they were.
C12_ValidationBeforeLimit ==
    [][\A w \in Workers :
          pc[w] = "idle" /\ pc'[w] # "idle" /\ Invalid(req'[w]) =>
              /\ resp'[w].status = 400
              /\ storage' = storage]_vars

\* C12, amended: the rate-limit check runs before validation.  Every arrival,
\* valid or not, is counted in the minute window of its client and route, and
\* an invalid request is answered 429 when that window is exceeded and 400
\* otherwise.
C12_LimitBeforeValidation ==
    /\ \A c \in Clients :
          MinuteCount(storage, c, "profile") + MinuteCount(storage, c, "calendar")
              + MinuteCount(storage, c, "contest") = arrivals[c]
    /\ \A w \in Workers :
          Done(w) /\ Invalid(req[w]) =>
              resp[w].status =
                  IF MinuteCount(storage, req[w].client, req[w].route) > RateLimitPerMinute
                  THEN 429 ELSE 400

\* C12's case: an invalid request has been answered 429 by the limiter.
C12_Witness ==
    \E w \in Workers :
        /\ Done(w)
        /\ Invalid(req[w])
        /\ resp[w] = [body |-> RateLimitBody, status |-> 429]

\* C13: only successful results are stored in the calendar and contest caches:
\* no entry of either cache holds an error result.
C13_OnlySuccessCached ==
    \A cache \in {cal_cache, con_cache} :
        \A i \in DOMAIN cache : "error" \notin DOMAIN cache[i].value

\* The entry a problem's detail is to give: its name and the URL that ends in
\* its slug, each empty when the detail does not name it.
ExpectedQuestion(details) ==
    [question |-> IF HasKey(details, "pname") THEN ValueAt(details, "pname")
                  ELSE JStr(""),
     questionUrl |-> ProblemsBase \o
                     (IF HasKey(details, "slug") THEN ValueAt(details, "slug").s
                      ELSE "")]

\* The entry counts the difficulty's problems and lists them in upstream order.
EntryMatches(entry, problems) ==
    /\ entry.count = Len(problems.items)
    /\ Len(entry.questions) = Len(problems.items)
    /\ \A n \in DOMAIN problems.items :
          entry.questions[n] = ExpectedQuestion(problems.items[n].val)

\* C14, as claimed: every upstream difficulty has an entry under its lowercased
\* label that counts and lists that difficulty's problems in upstream order,
\* also when two upstream labels differ only in letter case.
C14_EveryDifficultyListed ==
    \A w \in Workers :
        ProfileSuccess(w) =>
            LET items == SubmissionsOf(w).items
                stats == result[w].value.solvedStats
            IN  \A i \in DOMAIN items :
                    /\ StrLower(items[i].key) \in DOMAIN stats
                    /\ EntryMatches(stats[StrLower(items[i].key)], items[i].val)

\* C14, amended: the output has exactly the lowercased upstream labels as keys,
\* and each entry counts and lists, in upstream order, the problems of the last
\* upstream difficulty with that lowercased label; an earlier difficulty whose
\* label differs from it only in letter case is dropped.
C14_LastLabelWins ==
    \A w \in Workers :
        ProfileSuccess(w) =>
            LET items == SubmissionsOf(w).items
                stats == result[w].value.solvedStats
            IN  /\ DOMAIN stats = {StrLower(items[i].key) : i \in DOMAIN items}
                /\ \A i \in DOMAIN items :
                      (\A n \in DOMAIN items :
                          StrLower(items[n].key) = StrLower(items[i].key) => n <= i)
                      => EntryMatches(stats[StrLower(items[i].key)], items[i].val)

\* C14's case: two upstream labels differ only in letter case, their problem
\* lists differ, and the output's entry is the later one's.
C14_Witness ==
    \E w \in Workers :
        /\ ProfileSuccess(w)
        /\ LET items == SubmissionsOf(w).items
           IN  /\ Len(items) = 2
               /\ StrLower(items[1].key) = StrLower(items[2].key)
               /\ Len(items[1].val.items) = 2
               /\ Len(items[2].val.items) = 1
               /\ ~HasKey(items[2].val.items[1].val, "slug")
               /\ result[w].value.solvedStats["easy"].count = 1

\* The objects whose results a cache holds.
CachedIds(cache) == {cache[i].key : i \in DOMAIN cache}

\* The least recently used entry of a cache that has had no hit: its oldest.
OldestId(cache) == CHOOSE k \in CachedIds(cache) : \A n \in CachedIds(cache) : k <= n

\* What one step may do to a cache: nothing, add an entry to a cache that is not
\* full, or replace the least recently used entry of a full cache by a new one.
LruStep(cache, after) ==
    \/ after = cache
    \/ /\ Len(cache) < maxsize
       /\ Len(after) = Len(cache) + 1
       /\ CachedIds(cache) \subseteq CachedIds(after)
    \/ /\ Len(cache) = maxsize
       /\ Len(after) = maxsize
       /\ CachedIds(cache) \ CachedIds(after) = {OldestId(cache)}

\* C15: each cache holds at most 100 entries; a store into a full cache evicts
\* the least recently used entry and nothing else ever removes an entry, the
\* passing of time included; a profile request leaves both caches alone, and
\* every valid profile request that the limiter lets through fetches upstream.
C15_LruCaches ==
    /\ [](/\ Len(cal_cache) <= maxsize
          /\ Len(con_cache) <= maxsize
          /\ \A w \in Workers :
                Handling(w) /\ req[w].route = "profile" /\ resp[w].status \notin {400, 429}
                    => pc[w] = "fetching" \/ log[w] # <<>>)
    /\ [][/\ LruStep(cal_cache, cal_cache')
          /\ LruStep(con_cache, con_cache')
          /\ \A w \in Workers :
                req'[w].route = "profile" /\ (pc'[w] # pc[w] \/ log'[w] # log[w]) =>
                    cal_cache' = cal_cache /\ con_cache' = con_cache]_vars

\* C15's case: a store into the full calendar cache has evicted its oldest
\* entry, and the cache still holds 100 entries.
C15_Witness ==
    /\ Len(cal_cache) = maxsize
    /\ cal_cache[maxsize].key = 1
    /\ cal_cache[1].key = 2 - maxsize
    /\ 1 - maxsize \notin CachedIds(cal_cache)

\* The two workers' requests name the same route, username and year.
SameKey(w, v) ==
    /\ req[w].route = req[v].route
    /\ obj[w].username = obj[v].username
    /\ obj[w].year = obj[v].year

\* C16: there is no single-flight and no serialization.  Every calendar or
\* contest request that passes the limiter and validation makes its own
\* upstream call, whether or not another request for the same
\* (username, year) is in flight, and a request whose call is in flight can
\* always go on, whatever the other requests are doing.
C16_NoSingleFlight ==
    \A w \in Workers :
        /\ /\ Handling(w)
           /\ req[w].route \in {"calendar", "contest"}
           /\ resp[w].status \notin {400, 429}
           => pc[w] = "fetching" \/ log[w] # <<>>
        /\ pc[w] = "fetching" =>
              ENABLED (\E a \in PlainAnswers(req[w].route) :
                          Attempt(w, a, "json.JSONDecodeError", TRUE))

\* C16's case: two requests for the same (username, year) of one route are in
\* flight at the same time, each with its own extractor and upstream call.
C16_Witness ==
    \E w, v \in Workers :
        /\ w # v
        /\ pc[w] = "fetching"
        /\ pc[v] = "fetching"
        /\ SameKey(w, v)
        /\ obj[w].id # obj[v].id

====
